---- MODULE Spec2Model ----
(***************************************************************************)
(* Ractive-decorators-sortable: the 'sortable' decorator, its registry     *)
(* (nodeMapping), the module-level drag session (ractive, sourceKeypath,   *)
(* sourceArray), the module-level eventNameToFire, and the five native     *)
(* drag-event handlers, over a small page of elements rendered by three    *)
(* Ractive instances.                                                      *)
(*                                                                         *)
(* The host (Ractive and the browser) is the environment: it calls         *)
(* sortable and the returned teardown when it renders and unrenders an     *)
(* element, and it delivers the native drag events. An element is named by *)
(* the place it renders: "a2" is the element bound to list.2 of instance   *)
(* A, whichever member the array holds there.                              *)
(***************************************************************************)
EXTENDS Integers, Sequences, FiniteSets, TLC

\* ------------------------------------------------------------------ bounds

\* The registry never shrinks: the model stops attaching at this length.
MaxBindings == 2

\* The same on the page that shows only A's list, every member decorated.
MaxListBindings == 3

\* ------------------------------------------------------- the page (host)

Undefined == "undefined"
Null == "null"
\* An unset keypath variable (var sourceKeypath; var sourceArray;).
NoKeypath == <<>>

\* Three Ractive instances. A and B both keep an array under the keypath
\* "list"; A keeps a second array "other"; C's "list" is a plain object.
Owners == {"A", "B", "C"}

\* Elements carrying the decorator, and one nested handle element "h".
\* DOM nesting: a0 contains o0, o0 contains h.
Movables == {"a0", "a1", "a2", "o0", "b0", "b1", "x"}
Nodes == Movables \cup {"h"}

EventTypes == {"dragstart", "dragend", "dragenter", "dragover", "drop"}

DataKeys == {<<"A", "list">>, <<"A", "other">>, <<"B", "list">>}

InitialData ==
    (<<"A", "list">> :> <<"a", "b", "c">>) @@
    (<<"A", "other">> :> <<"m", "n">>) @@
    (<<"B", "list">> :> <<"p", "q">>)

\* A keypath is the sequence of its tokens: "list.0" is <<"list", ".", "0">>.
Keypath(coll, key) == <<coll, ".", key>>

\* Ractive.getContext(node): the instance that rendered the element and the
\* keypath the element is bound to.
getContext(node) ==
    CASE node = "a0" -> [ractive |-> "A", keypath |-> Keypath("list", "0")]
      [] node = "a1" -> [ractive |-> "A", keypath |-> Keypath("list", "1")]
      [] node = "a2" -> [ractive |-> "A", keypath |-> Keypath("list", "2")]
      [] node = "o0" -> [ractive |-> "A", keypath |-> Keypath("other", "0")]
      [] node = "h"  -> [ractive |-> "A", keypath |-> Keypath("other", "0")]
      [] node = "b0" -> [ractive |-> "B", keypath |-> Keypath("list", "0")]
      [] node = "b1" -> [ractive |-> "B", keypath |-> Keypath("list", "1")]
      [] node = "x"  -> [ractive |-> "C", keypath |-> Keypath("list", "foo")]

\* node.querySelector(selector): the first descendant matching the selector.
querySelector(node, selector) ==
    IF selector = ".h" /\ node \in {"a0", "o0"} THEN "h" ELSE Null

RECURSIVE LastDot(_, _)
LastDot(kp, i) ==
    IF i = 0 THEN 0 ELSE IF kp[i] = "." THEN i ELSE LastDot(kp, i - 1)

\* context.resolve('../'): the keypath without its last segment.
resolveParent(kp) ==
    LET d == LastDot(kp, Len(kp)) IN IF d = 0 THEN <<>> ELSE SubSeq(kp, 1, d - 1)

\* Ractive.splitKeypath(keypath): the segments between the dots.
splitKeypath(kp) == SelectSeq(kp, LAMBDA t : t # ".")

\* ToIntegerOrInfinity of a segment handed to Array.prototype.splice as its
\* start: a numeral is its number, anything else is NaN, which is 0.
ToInteger(seg) ==
    CASE seg = "0" -> 0 [] seg = "1" -> 1 [] seg = "2" -> 2 [] seg = "3" -> 3
      [] seg = "4" -> 4 [] OTHER -> 0

IsArrayIndex(seg) == seg \in {"0", "1", "2", "3", "4"}

\* Array.prototype.splice(start, deleteCount, ...items) on a sequence.
arraySplice(arr, startSeg, deleteCount, items) ==
    LET start == IF ToInteger(startSeg) < Len(arr) THEN ToInteger(startSeg) ELSE Len(arr)
        dc    == IF deleteCount < Len(arr) - start THEN deleteCount ELSE Len(arr) - start
    IN SubSeq(arr, 1, start) \o items \o SubSeq(arr, start + dc + 1, Len(arr))

\* Whether the instance holds an array at the keypath.
IsArrayAt(d, owner, kp) == Len(kp) = 1 /\ <<owner, kp[1]>> \in DOMAIN d

\* ractive.get(keypath) for the keypath of a member.
ractiveGet(d, owner, kp) ==
    LET segs == splitKeypath(kp) IN
    IF Len(segs) = 2 /\ <<owner, segs[1]>> \in DOMAIN d
    THEN LET arr == d[<<owner, segs[1]>>] IN
         IF IsArrayIndex(segs[2]) /\ ToInteger(segs[2]) < Len(arr)
         THEN arr[ToInteger(segs[2]) + 1]
         ELSE Undefined
    ELSE IF owner = "C" /\ kp = Keypath("list", "foo") THEN "z" ELSE Undefined

\* ractive.splice(keypath, index, deleteCount, ...items) on an array keypath.
ractiveSplice(d, owner, kp, startSeg, deleteCount, items) ==
    [d EXCEPT ![<<owner, kp[1]>>] = arraySplice(@, startSeg, deleteCount, items)]

\* ------------------------------------------------------------------ state

VARIABLES
    nodeMapping,      \* the registry: a sequence of {nodeToMove, draggableNode}
    eventNameToFire,  \* module-level: the last attach's _eventNameToFire
    ractive,          \* session: the owning instance
    sourceKeypath,    \* session: the dragged member's keypath
    sourceArray,      \* session: the keypath of its array
    listeners,        \* per node: the event types a handler is registered for
    draggable,        \* per node: node.draggable
    dataset,          \* per node: dataset.targetClass
    classList,        \* per node: its classes
    data,             \* the arrays of the instances
    notifyArgs,       \* history: the _eventNameToFire each sortable call received
    last,             \* history: what the last call or event did
    drag,             \* history: the gesture in progress
    observe           \* which of last and drag this behaviour records, and on
                      \* which page: "outcome", "gesture" or "list"

progVars == <<nodeMapping, eventNameToFire, ractive, sourceKeypath, sourceArray,
              listeners, draggable, dataset, classList, data>>
vars == <<nodeMapping, eventNameToFire, ractive, sourceKeypath, sourceArray,
          listeners, draggable, dataset, classList, data, notifyArgs, last, drag,
          observe>>

errorMessage == "The sortable decorator only works with elements that correspond to array members"
TypeError == "TypeError"
NoError == "none"

IsNullish(v) == v \in {Null, Undefined}

NoDrag(phase) ==
    [phase |-> phase, ractive |-> Undefined, array |-> NoKeypath, from |-> Undefined,
     orig |-> <<>>, enters |-> "none", via |-> {}, at |-> Undefined,
     clean |-> TRUE, handle |-> Null]

\* The module as loaded: an empty registry and an unset session.
InitProgram ==
    /\ nodeMapping = <<>>
    /\ eventNameToFire = Undefined
    /\ ractive = Undefined
    /\ sourceKeypath = NoKeypath
    /\ sourceArray = NoKeypath
    /\ listeners = [n \in Nodes |-> {}]
    /\ draggable = [n \in Nodes |-> FALSE]
    /\ dataset = [n \in Nodes |-> Undefined]
    /\ classList = [n \in Nodes |-> {}]
    /\ data = InitialData
    /\ notifyArgs = <<>>
    /\ last = [this |-> Null, ran |-> FALSE, err |-> NoError,
               lookups |-> 0, event |-> {}, calls |-> <<>>]
    /\ drag = NoDrag("idle")

\* Behaviours that record each call's outcome in `last`.
Init == InitProgram /\ observe = "outcome"

\* Behaviours that record the gesture in `drag`.
InitGesture == InitProgram /\ observe = "gesture"

\* Behaviours on the page that shows only A's list, every member decorated;
\* they record the gesture in `drag`.
InitList == InitProgram /\ observe = "list"

Outcome(op, this, ran, err, lookups, event, calls) ==
    IF observe = "outcome"
    THEN [this |-> this, ran |-> ran, err |-> err, lookups |-> lookups,
          event |-> event, calls |-> calls]
    ELSE last

Gesture(d) == IF observe \in {"gesture", "list"} THEN d ELSE drag

\* --------------------------------------------------------------- registry

\* nodeMapping.find(item => item.draggableNode === draggableNode): the index
\* of the first match, 0 for undefined.
find(draggableNode) ==
    LET hits == {i \in 1..Len(nodeMapping) : nodeMapping[i].draggableNode = draggableNode}
    IN IF hits = {} THEN 0 ELSE CHOOSE i \in hits : \A j \in hits : i <= j

\* getNodeToMove: .nodeToMove of the match; reading it off undefined throws.
getNodeToMove(draggableNode) ==
    IF find(draggableNode) = 0 THEN TypeError
    ELSE nodeMapping[find(draggableNode)].nodeToMove

\* ----------------------------------------------------------------- attach

\* The decorator's uses in the page's templates: the arguments each element
\* may be attached with. a0 omits the notify event its sibling a2 names, and
\* may name the nested handle, as o0 does; a1 carries no decorator.
Use(node, sel, cls, evt) == [node |-> node, sel |-> sel, cls |-> cls, evt |-> evt]

Uses ==
    {Use("a0", Null, Null, Undefined), Use("a2", Null, Null, "moved"),
     Use("a0", ".h", Null, Undefined),
     Use("o0", ".h", "hot", Undefined), Use("b0", Null, "hot", "sorted"),
     Use("x", Null, Null, Undefined)}

\* The uses on the page that shows only A's list: each of its three members
\* carries the decorator.
ListUses ==
    {Use("a0", Null, Null, Undefined), Use("a1", Null, Null, Undefined),
     Use("a2", Null, Null, Undefined)}

PageUses == IF observe = "list" THEN ListUses ELSE Uses

\* The registry length at which the model stops attaching.
BindingLimit == IF observe = "list" THEN MaxListBindings ELSE MaxBindings

\* draggableElSelector != null ? node.querySelector(selector) : node
handleOf(node, draggableElSelector) ==
    IF ~IsNullish(draggableElSelector)
    THEN querySelector(node, draggableElSelector)
    ELSE node

\* targetClass || 'droptarget'
targetClassOf(targetClass) ==
    IF targetClass \in {Null, Undefined, ""} THEN "droptarget" ELSE targetClass

\* The listeners sortable registers on the handle.
addedListeners == {"dragstart", "dragend", "dragenter", "dragover", "drop"}

\* Faulty variant: the teardown forgets the drop listener.
removedListeners_withoutDrop == {"dragstart", "dragend", "dragenter", "dragover"}

\* The listeners the returned teardown removes from the handle.
removedListeners == {"dragstart", "dragend", "dragenter", "dragover", "drop"}

sortable(node, draggableElSelector, targetClass, _eventNameToFire) ==
    LET nodeToMove    == node
        draggableNode == handleOf(node, draggableElSelector)
    IN /\ Len(nodeMapping) < BindingLimit
       /\ nodeMapping' = Append(nodeMapping,
              [nodeToMove |-> nodeToMove, draggableNode |-> draggableNode])
       /\ notifyArgs' = Append(notifyArgs, _eventNameToFire)
       /\ dataset' = [dataset EXCEPT ![nodeToMove] = targetClassOf(targetClass)]
       /\ eventNameToFire' = _eventNameToFire
       /\ IF draggableNode = Null
          THEN \* null.draggable = true throws; nothing after it runs
               /\ UNCHANGED <<draggable, listeners>>
               /\ last' = Outcome("attach", node, TRUE, TypeError, 0, {}, <<>>)
          ELSE /\ draggable' = [draggable EXCEPT ![draggableNode] = TRUE]
               /\ listeners' = [listeners EXCEPT ![draggableNode] = @ \cup addedListeners]
               /\ last' = Outcome("attach", node, TRUE, NoError, 0, {}, <<>>)
       /\ UNCHANGED <<ractive, sourceKeypath, sourceArray, classList, data, drag, observe>>

\* The teardown returned by the i-th sortable call.
teardown(i) ==
    LET node == nodeMapping[i].draggableNode
    IN /\ node # Null
       /\ listeners' = [listeners EXCEPT ![node] = @ \ removedListeners]
       /\ last' = Outcome("teardown", node, TRUE, NoError, 0, {}, <<>>)
       /\ UNCHANGED <<nodeMapping, eventNameToFire, ractive, sourceKeypath, sourceArray,
                      draggable, dataset, classList, data, notifyArgs, drag, observe>>

\* --------------------------------------------------------------- handlers

Last(seq) == seq[Len(seq)]

\* Faulty variant: the array check is left out.
parentIsArray_unchecked(context) == TRUE

\* Array.isArray(context.get('../'))
parentIsArray(context) ==
    IsArrayAt(data, context.ractive, resolveParent(context.keypath))

\* Faulty variant: the owner is never stored.
ownerAfterDragstart_kept(context) == ractive

\* What dragstartHandler leaves in `ractive`: the assignment comes after the
\* throw.
ownerAfterDragstart(context) ==
    IF parentIsArray(context) THEN context.ractive ELSE ractive

dragstartHandler(this) ==
    LET me      == getNodeToMove(this)
        context == getContext(me)
        ok      == parentIsArray(context)
    IN IF me = TypeError
       THEN /\ last' = Outcome("dragstart", this, TRUE, TypeError, 1, {}, <<>>)
            /\ drag' = Gesture(NoDrag("idle"))
            /\ UNCHANGED progVars
            /\ UNCHANGED <<notifyArgs, observe>>
       ELSE /\ sourceKeypath' = context.keypath
            /\ sourceArray' = resolveParent(context.keypath)
            /\ ractive' = ownerAfterDragstart(context)
            /\ last' = Outcome("dragstart", this, TRUE,
                               IF ok THEN NoError ELSE errorMessage, 1,
                               IF ok THEN {"setData", "stopPropagation"} ELSE {}, <<>>)
            /\ drag' = Gesture(
                   IF ok
                   THEN [phase |-> "dragging", ractive |-> context.ractive,
                         array |-> resolveParent(context.keypath),
                         from |-> Last(splitKeypath(context.keypath)),
                         orig |-> data[<<context.ractive, resolveParent(context.keypath)[1]>>],
                         enters |-> "none", via |-> {},
                         at |-> Last(splitKeypath(context.keypath)),
                         clean |-> \A m \in Nodes : classList[m] = {},
                         handle |-> this]
                   ELSE NoDrag("idle"))
            /\ UNCHANGED <<nodeMapping, eventNameToFire, listeners, draggable, dataset,
                           classList, data, notifyArgs, observe>>

\* A call into the host instance made by a handler.
Call(f, owner, keypath, index, remove, items, name) ==
    [f |-> f, owner |-> owner, keypath |-> keypath, index |-> index,
     remove |-> remove, items |-> items, name |-> name]

\* Faulty variant: the owner check is left out.
sameOwner_unchecked(context) == TRUE

\* context.ractive !== ractive aborts
sameOwner(context) == context.ractive = ractive

\* Faulty variant: the array check is left out.
sameArray_unchecked(targetArray) == TRUE

\* targetArray !== sourceArray aborts
sameArray(targetArray) == targetArray = sourceArray

\* Faulty variant: the same-position return is left out.
samePosition_never(targetKeypath) == FALSE

\* targetKeypath === sourceKeypath only adds the class
samePosition(targetKeypath) == targetKeypath = sourceKeypath

\* Faulty variant: the remove always acts on the head of the array.
removeIndex_head(keypath) == "0"

\* array[array.length - 1] of the split source keypath: where the remove acts
removeIndex(keypath) == Last(splitKeypath(keypath))

\* Faulty variant: the insert uses the index of the key before the removal.
insertIndex_preRemoval(oldKeypath, targetKeypath) == Last(splitKeypath(oldKeypath))

\* array[array.length - 1] after sourceKeypath = targetKeypath: where the
\* insert acts
insertIndex(oldKeypath, targetKeypath) == Last(splitKeypath(targetKeypath))

\* Faulty variant: the session key is left on the position the item was
\* taken from.
sessionKeyAfter_unmoved(oldKeypath, targetKeypath) == oldKeypath

\* sourceKeypath = targetKeypath: the target index is now the source index
sessionKeyAfter(oldKeypath, targetKeypath) == targetKeypath

\* Faulty variant: the notification is never sent.
notifies_never == FALSE

\* eventNameToFire != null
notifies == ~IsNullish(eventNameToFire)

\* The gesture as the page sees it: a drag-enter on a member of the array
\* the drag started in.
EnterSeen(context) ==
    IF /\ drag.phase = "dragging"
       /\ context.ractive = drag.ractive
       /\ resolveParent(context.keypath) = drag.array
    THEN [drag EXCEPT !.enters = IF @ = "none" THEN "one" ELSE "many",
                      !.via = @ \cup {Last(splitKeypath(context.keypath))},
                      !.at = Last(splitKeypath(context.keypath))]
    ELSE drag

\* Faulty variant: the two members change places.
reordered_exchanged(d, owner, targetArray, oldKeypath, targetKeypath) ==
    LET i == ToInteger(Last(splitKeypath(oldKeypath))) + 1
        j == ToInteger(Last(splitKeypath(targetKeypath))) + 1
        arr == d[<<owner, targetArray[1]>>]
    IN [d EXCEPT ![<<owner, targetArray[1]>>] = [arr EXCEPT ![i] = arr[j], ![j] = arr[i]]]

\* The remove and the insert of a reorder: the source is read, one member is
\* removed at the old index, and the source is inserted at the new index.
reordered(d, owner, targetArray, oldKeypath, targetKeypath) ==
    LET source  == ractiveGet(d, owner, oldKeypath)
        removed == ractiveSplice(d, owner, targetArray, removeIndex(oldKeypath), 1, <<>>)
    IN ractiveSplice(removed, owner, targetArray,
                     insertIndex(oldKeypath, targetKeypath), 0, <<source>>)

dragenterHandler(this) ==
    LET me            == getNodeToMove(this)
        context       == getContext(me)
        targetKeypath == context.keypath
        targetArray   == resolveParent(targetKeypath)
        source        == ractiveGet(data, ractive, sourceKeypath)
        getCall       == Call("get", ractive, sourceKeypath, "", 0, <<>>, "")
        removeCall    == Call("splice", ractive, targetArray,
                              removeIndex(sourceKeypath), 1, <<>>, "")
        insertCall    == Call("splice", ractive, targetArray,
                              insertIndex(sourceKeypath, targetKeypath), 0, <<source>>, "")
        fireCall      == Call("fire", context.ractive, context.keypath, "", 0,
                              splitKeypath(targetKeypath), eventNameToFire)
    IN IF me = TypeError
       THEN /\ last' = Outcome("dragenter", this, TRUE, TypeError, 1, {}, <<>>)
            /\ UNCHANGED progVars
            /\ UNCHANGED <<notifyArgs, drag, observe>>
       ELSE /\ drag' = Gesture(EnterSeen(context))
            /\ UNCHANGED <<nodeMapping, eventNameToFire, listeners, draggable, dataset,
                           notifyArgs, observe>>
            /\ IF ~sameOwner(context) \/ ~sameArray(targetArray)
               THEN /\ last' = Outcome("dragenter", this, TRUE, NoError, 1,
                                       {"preventDefault"}, <<>>)
                    /\ UNCHANGED <<ractive, sourceKeypath, sourceArray, classList, data>>
               ELSE IF samePosition(targetKeypath)
               THEN /\ classList' = [classList EXCEPT ![me] = @ \cup {dataset[me]}]
                    /\ last' = Outcome("dragenter", this, TRUE, NoError, 1,
                                       {"preventDefault"}, <<>>)
                    /\ UNCHANGED <<ractive, sourceKeypath, sourceArray, data>>
               ELSE IF ~IsArrayAt(data, ractive, targetArray)
               THEN \* ractive.splice on a keypath that holds no array throws
                    /\ last' = Outcome("dragenter", this, TRUE, "NotArray", 1,
                                       {"preventDefault", "dropEffect"}, <<getCall>>)
                    /\ UNCHANGED <<ractive, sourceKeypath, sourceArray, classList, data>>
               ELSE /\ data' = reordered(data, ractive, targetArray, sourceKeypath, targetKeypath)
                    /\ sourceKeypath' = sessionKeyAfter(sourceKeypath, targetKeypath)
                    /\ last' = Outcome("dragenter", this, TRUE, NoError, 1,
                                       {"preventDefault", "dropEffect"},
                                       <<getCall, removeCall, insertCall>>
                                       \o (IF notifies THEN <<fireCall>> ELSE <<>>))
                    /\ UNCHANGED <<ractive, sourceArray, classList>>

\* removeTargetClass: the dragend and the drop handler
removeTargetClass(op, this) ==
    LET me == getNodeToMove(this)
    IN IF me = TypeError
       THEN /\ last' = Outcome(op, this, TRUE, TypeError, 1, {}, <<>>)
            /\ UNCHANGED progVars
            /\ UNCHANGED <<notifyArgs, drag, observe>>
       ELSE /\ classList' = [classList EXCEPT ![me] = @ \ {dataset[me]}]
            /\ last' = Outcome(op, this, TRUE, NoError, 1, {"stopPropagation"}, <<>>)
            /\ drag' = Gesture(NoDrag("ended"))
            /\ UNCHANGED <<nodeMapping, eventNameToFire, ractive, sourceKeypath,
                           sourceArray, listeners, draggable, dataset, data, notifyArgs,
                           observe>>

\* Faulty variant: the dragover listener runs the dragend handler.
preventDefault_clearing(this) == removeTargetClass("dragover", this)

\* preventDefault: the dragover handler
preventDefault(this) ==
    /\ last' = Outcome("dragover", this, TRUE, NoError, 0,
                       {"stopPropagation", "preventDefault"}, <<>>)
    /\ UNCHANGED progVars
    /\ UNCHANGED <<notifyArgs, drag, observe>>

\* ------------------------------------------------------------ the actions

Attach(node, sel, cls, evt) == sortable(node, sel, cls, evt)

Teardown(i) == teardown(i)

DragStart(n) == "dragstart" \in listeners[n] /\ dragstartHandler(n)

DragEnter(n) == "dragenter" \in listeners[n] /\ dragenterHandler(n)

DragOver(n) == "dragover" \in listeners[n] /\ preventDefault(n)

DragEnd(n) == "dragend" \in listeners[n] /\ removeTargetClass("dragend", n)

Drop(n) == "drop" \in listeners[n] /\ removeTargetClass("drop", n)

\* A native drag event of a type the draggable element has no listener for:
\* no handler runs.
Undelivered(n) ==
    /\ draggable[n]
    /\ EventTypes \ listeners[n] # {}
    /\ last' = Outcome("event", n, FALSE, NoError, 0, {}, <<>>)
    /\ UNCHANGED progVars
    /\ UNCHANGED <<notifyArgs, drag, observe>>

Next ==
    \/ \E u \in PageUses : Attach(u.node, u.sel, u.cls, u.evt)
    \/ \E i \in 1..Len(nodeMapping) : Teardown(i)
    \/ \E n \in Nodes : DragStart(n)
    \/ \E n \in Nodes : DragEnter(n)
    \/ \E n \in Nodes : DragOver(n)
    \/ \E n \in Nodes : DragEnd(n)
    \/ \E n \in Nodes : Drop(n)
    \/ \E n \in Nodes : Undelivered(n)

Spec == Init /\ [][Next]_vars

SpecGesture == InitGesture /\ [][Next]_vars

SpecList == InitList /\ [][Next]_vars

\* ------------------------------------------------------------- properties

\* The element a handle's events act on, and its context.
MovableOf(n) == getNodeToMove(n)
ContextOf(n) == getContext(getNodeToMove(n))
Without(seq, k) == SubSeq(seq, 1, k - 1) \o SubSeq(seq, k + 1, Len(seq))

\* `res` is `orig` with the member at index i (0-based) removed and
\* reinserted at index j, the others keeping their relative order.
IsMove(orig, i, j, res) ==
    /\ Len(res) = Len(orig)
    /\ res[j + 1] = orig[i + 1]
    /\ Without(res, j + 1) = Without(orig, i + 1)

FourItems == (<<"A", "list">> :> <<"a", "b", "c", "d">>)

Splices(calls) == {i \in 1..Len(calls) : calls[i].f = "splice"}
Fires(calls) == {i \in 1..Len(calls) : calls[i].f = "fire"}

\* C1: after a successful drag-start at index i and one drag-enter at index
\* j # i of the same array and owner, the array is the original with the
\* member of index i removed and reinserted at index j; [a,b,c,d] with 0 -> 2
\* gives [b,c,a,d] and with 3 -> 0 gives [d,a,b,c].
C1_SingleMove ==
    /\ (drag.phase = "dragging" /\ drag.enters = "one" /\ drag.at # drag.from)
         => /\ IsMove(drag.orig, ToInteger(drag.from), ToInteger(drag.at),
                      data[<<drag.ractive, drag.array[1]>>])
            /\ \A k \in DOMAIN data :
                   k # <<drag.ractive, drag.array[1]>> => data[k] = InitialData[k]
    /\ reordered(FourItems, "A", <<"list">>, Keypath("list", "0"), Keypath("list", "2"))
           [<<"A", "list">>] = <<"b", "c", "a", "d">>
    /\ reordered(FourItems, "A", <<"list">>, Keypath("list", "3"), Keypath("list", "0"))
           [<<"A", "list">>] = <<"d", "a", "b", "c">>

C1_Witness ==
    /\ drag.phase = "dragging" /\ drag.enters = "one"
    /\ drag.from = "0" /\ drag.at = "2"
    /\ drag.orig = <<"a", "b", "c">>
    /\ data[<<"A", "list">>] = <<"b", "c", "a">>

\* C2: a drag-enter on the element whose keypath is the session's
\* sourceKeypath (same owner, same array) issues no call on the instance and
\* changes nothing but the class list of that element, which gains its
\* target class.
C2_ReentryOnlyHighlights ==
    [][\A n \in Nodes :
         (/\ last'.this = n
          /\ MovableOf(n) # TypeError
          /\ ContextOf(n).ractive = ractive
          /\ resolveParent(ContextOf(n).keypath) = sourceArray
          /\ ContextOf(n).keypath = sourceKeypath
          /\ DragEnter(n))
         => /\ UNCHANGED <<nodeMapping, eventNameToFire, ractive, sourceKeypath,
                           sourceArray, listeners, draggable, dataset, data>>
            /\ classList' = [classList EXCEPT
                                ![MovableOf(n)] = @ \cup {dataset[MovableOf(n)]}]
            /\ last'.calls = <<>>
            /\ last'.err = NoError]_vars

C2_Witness ==
    /\ last.ran /\ last.event = {"preventDefault"} /\ last.calls = <<>>
    /\ last.this = "a2"
    /\ ractive = "A" /\ sourceKeypath = Keypath("list", "2")
    /\ data[<<"A", "list">>] # InitialData[<<"A", "list">>]
    /\ "droptarget" \in classList["a2"]

\* C3: a collection changes only in a drag-enter on an element whose owner
\* is the session's owner, and it is a collection of that owner; a drag-enter
\* on an element of another owner changes nothing and calls nothing, also
\* when both owners keep their array under the same keypath; and the session
\* owner is only ever set by a drag-start on an element of that owner.
C3_OwnersIsolated ==
    [][/\ \A n \in Nodes :
            (/\ last'.this = n
             /\ MovableOf(n) # TypeError
             /\ ContextOf(n).ractive # ractive
             /\ DragEnter(n))
            => /\ UNCHANGED progVars
               /\ last'.calls = <<>>
       /\ \A k \in DOMAIN data :
            data'[k] # data[k]
            => /\ k[1] = ractive
               /\ \E n \in Nodes : DragEnter(n) /\ ContextOf(n).ractive = ractive
       /\ ractive' # ractive
            => \E n \in Nodes : DragStart(n) /\ ractive' = ContextOf(n).ractive]_vars

C3_Witness ==
    /\ last.ran /\ last.this = "b0" /\ last.event = {"preventDefault"}
    /\ ContextOf("b0").ractive = "B"
    /\ ractive = "A" /\ sourceKeypath = Keypath("list", "2")
    /\ sourceArray = resolveParent(ContextOf("b0").keypath)
    /\ data = InitialData

\* C4: with the session on one array of an owner, a drag-enter on an element
\* bound to another array of the same owner makes no call on the instance and
\* leaves both arrays, the session and every class list unchanged.
C4_ArraysIsolated ==
    [][\A n \in Nodes :
         (/\ last'.this = n
          /\ MovableOf(n) # TypeError
          /\ ContextOf(n).ractive = ractive
          /\ resolveParent(ContextOf(n).keypath) # sourceArray
          /\ DragEnter(n))
         => /\ UNCHANGED progVars
            /\ last'.calls = <<>>
            /\ last'.err = NoError]_vars

C4_Witness ==
    /\ last.ran /\ last.this = "h" /\ last.event = {"preventDefault"}
    /\ MovableOf("h") = "o0"
    /\ ractive = "A" /\ sourceArray = <<"list">>
    /\ resolveParent(ContextOf("h").keypath) = <<"other">>
    /\ data = InitialData

\* C5: attaching never raises the not-an-array error, and raises nothing when
\* the handle exists, whatever the element's data; every drag-start on an
\* element whose parent data is not an array raises it out of the handler,
\* and no other drag-start does.
C5_ErrorAtDragStart ==
    [][/\ \A u \in Uses :
            Attach(u.node, u.sel, u.cls, u.evt)
            => /\ last'.err # errorMessage
               /\ handleOf(u.node, u.sel) # Null => last'.err = NoError
       /\ \A n \in Nodes :
            (last'.this = n /\ MovableOf(n) # TypeError /\ DragStart(n))
            => (last'.err = errorMessage
                  <=> ~IsArrayAt(data, ContextOf(n).ractive,
                                 resolveParent(ContextOf(n).keypath)))]_vars

C5_Witness ==
    /\ last.this = "x" /\ last.err = errorMessage
    /\ Len(nodeMapping) = 1
    /\ ~IsArrayAt(data, "C", <<"list">>)

\* C6: with a notify event name set, a drag-enter that reorders makes exactly
\* one fire call, after the insert, with the entered element's context and
\* the segments of the new position; a drag-enter that makes no splice makes
\* no fire call.
C6_OneNotification ==
    LET calls == last.calls IN
    /\ Splices(calls) = {} => Fires(calls) = {}
    /\ (Splices(calls) # {} /\ last.err = NoError)
         => /\ Len(calls) >= 3
            /\ calls[2].f = "splice" /\ calls[2].remove = 1 /\ calls[2].items = <<>>
            /\ calls[3].f = "splice" /\ calls[3].remove = 0 /\ Len(calls[3].items) = 1
            /\ IF IsNullish(eventNameToFire)
               THEN Len(calls) = 3
               ELSE /\ Len(calls) = 4
                    /\ calls[4] = Call("fire", ContextOf(last.this).ractive,
                                       ContextOf(last.this).keypath, "", 0,
                                       splitKeypath(sourceKeypath), eventNameToFire)
                    /\ sourceKeypath = ContextOf(last.this).keypath

C6_Witness ==
    /\ Len(last.calls) = 4
    /\ last.calls[4].f = "fire" /\ last.calls[4].name = "moved"
    /\ last.calls[4].items = <<"list", "2">>
    /\ last.this = "a2"

\* C7: a reorder by a drag-enter on a binding's handle makes a fire call if
\* and only if that binding was attached with a notify event name, and then
\* with that name.
C7_NotifyPerBinding ==
    LET calls == last.calls
        arg   == notifyArgs[find(last.this)]
    IN (Splices(calls) # {} /\ last.err = NoError)
         => IF IsNullish(arg)
            THEN Fires(calls) = {}
            ELSE /\ Cardinality(Fires(calls)) = 1
                 /\ \A i \in Fires(calls) : calls[i].name = arg

\* C8: the teardown leaves its handle without any listener, and throws
\* nothing; called on a handle that has none it changes nothing; a native
\* drag event on a handle without listeners runs no handler: no registry
\* lookup, no change, no error.
C8_TeardownDetaches ==
    [][/\ \A i \in 1..Len(nodeMapping) :
            Teardown(i)
            => /\ listeners'[nodeMapping[i].draggableNode] = {}
               /\ last'.err = NoError
               /\ listeners[nodeMapping[i].draggableNode] = {} => UNCHANGED progVars
               /\ UNCHANGED <<nodeMapping, eventNameToFire, ractive, sourceKeypath,
                              sourceArray, draggable, dataset, classList, data>>
       /\ \A n \in Nodes :
            listeners[n] = {}
            => /\ ~(DragStart(n) \/ DragEnter(n) \/ DragOver(n) \/ DragEnd(n) \/ Drop(n))
               /\ Undelivered(n)
                    => /\ ~last'.ran
                       /\ last'.lookups = 0
                       /\ last'.err = NoError
                       /\ UNCHANGED progVars]_vars

C8_Witness ==
    /\ ~last.ran /\ last.lookups = 0 /\ last.err = NoError
    /\ last.this = "a0"
    /\ find("a0") # 0
    /\ listeners["a0"] = {}
    /\ ractive = "A"

\* C9: the lookup of a handle fails unless the handle is attached now: it
\* fails for a handle never attached and for one whose binding was torn
\* down.
C9_LookupOnlyAttached ==
    \A n \in Nodes : listeners[n] = {} => getNodeToMove(n) = TypeError

\* C10: once a drag-end or drop has been handled, no drag-enter reorders
\* until a drag-start succeeds.
C10_IdleAfterEnd ==
    [][(drag.phase = "ended" /\ \E n \in Nodes : DragEnter(n))
         => UNCHANGED <<data, ractive, sourceKeypath, sourceArray>>]_vars

\* C11: a drag-start that throws because the parent data is not an array
\* leaves ractive, sourceKeypath and sourceArray as they were.
C11_FailedStartKeepsSession ==
    [][\A n \in Nodes :
         (/\ last'.this = n
          /\ MovableOf(n) # TypeError
          /\ ~parentIsArray(ContextOf(n))
          /\ DragStart(n))
         => UNCHANGED <<ractive, sourceKeypath, sourceArray>>]_vars

\* C12: a drag-enter that reorders reads the source at the session key, then
\* removes one member at the index of that key's last segment, then sets the
\* session key to the entered element's key, then inserts the value it read
\* at the index of the new key's last segment; the array it leaves is the one
\* these two splices give in this order.
C12_RemoveThenInsert ==
    [][\A n \in Nodes :
         (/\ last'.this = n
          /\ DragEnter(n)
          /\ Splices(last'.calls) # {})
         => LET calls  == last'.calls
                target == ContextOf(n).keypath
                array  == resolveParent(target)
                source == ractiveGet(data, ractive, sourceKeypath)
                gone   == ractiveSplice(data, ractive, array,
                                        Last(splitKeypath(sourceKeypath)), 1, <<>>)
            IN /\ Len(calls) >= 3
               /\ calls[1] = Call("get", ractive, sourceKeypath, "", 0, <<>>, "")
               /\ calls[2] = Call("splice", ractive, array,
                                  Last(splitKeypath(sourceKeypath)), 1, <<>>, "")
               /\ sourceKeypath' = target
               /\ calls[3] = Call("splice", ractive, array,
                                  Last(splitKeypath(sourceKeypath')), 0, <<source>>, "")
               /\ Splices(calls) = {2, 3}
               /\ data' = ractiveSplice(gone, ractive, array,
                                        Last(splitKeypath(target)), 0, <<source>>)]_vars

C12_Witness ==
    /\ Len(last.calls) >= 3
    /\ last.calls[1].keypath = Keypath("list", "2")
    /\ last.calls[2].f = "splice" /\ last.calls[2].index = "2"
    /\ last.calls[3].f = "splice" /\ last.calls[3].index = "0"
    /\ last.calls[3].items = <<"c">>
    /\ sourceKeypath = Keypath("list", "0")
    /\ data[<<"A", "list">>] = <<"c", "a", "b">>

\* The number of members of seq equal to v.
Count(seq, v) == Cardinality({i \in 1..Len(seq) : seq[i] = v})

IsPermutation(seq, orig) ==
    /\ Len(seq) = Len(orig)
    /\ \A i \in 1..Len(seq) : Count(seq, seq[i]) = Count(orig, seq[i])

\* C13: every array is a permutation of its initial contents: same length,
\* same members, none lost, duplicated or replaced by undefined.
C13_ArraysArePermutations ==
    \A k \in DOMAIN data : IsPermutation(data[k], InitialData[k])

\* C14: while a gesture that began with a successful drag-start is open, the
\* session still names the owner and array it started in, and the member the
\* array holds at the session's sourceKeypath is the member that was at the
\* dragged position at the drag-start, after every drag-enter.
C14_KeyFollowsItem ==
    drag.phase = "dragging"
    => /\ ractive = drag.ractive
       /\ sourceArray = drag.array
       /\ resolveParent(sourceKeypath) = drag.array
       /\ ractiveGet(data, ractive, sourceKeypath) = drag.orig[ToInteger(drag.from) + 1]

C14_Witness ==
    /\ drag.phase = "dragging" /\ drag.enters = "many"
    /\ drag.from = "2" /\ drag.orig = <<"b", "c", "a">>
    /\ sourceKeypath = Keypath("list", "0")
    /\ data[<<"A", "list">>] = <<"a", "b", "c">>

\* C15: in a gesture on one array, after a successful drag-start at index i
\* and any number of drag-enters on members of that array, the last at index
\* j, the array is the original with the member of index i removed and
\* reinserted at index j, the others in their original order, whatever the
\* indices entered before.
C15_LastEnterDecides ==
    (drag.phase = "dragging" /\ drag.enters # "none")
    => /\ IsMove(drag.orig, ToInteger(drag.from), ToInteger(drag.at),
                 data[<<drag.ractive, drag.array[1]>>])
       /\ drag.at = drag.from => data[<<drag.ractive, drag.array[1]>>] = drag.orig

C15_Witness ==
    /\ drag.phase = "dragging" /\ drag.enters = "many"
    /\ drag.from = "0" /\ drag.at = "2" /\ drag.via = {"0", "1", "2"}
    /\ drag.orig = <<"a", "b", "c">>
    /\ data[<<"A", "list">>] = <<"b", "c", "a">>

\* C16: when a gesture that began with no element highlighted is closed, by
\* the drag-end on the handle it started on or by a drop on any handle, no
\* movable element carries its target class after the handler has run.
C16_CloseClearsHighlight ==
    [][(/\ drag.phase = "dragging" /\ drag.clean
        /\ drag'.phase = "ended"
        /\ DragEnd(drag.handle) \/ \E n \in Nodes : Drop(n))
       => \A m \in Movables : dataset[m] \notin classList'[m]]_vars

\* C17: no two registry entries have the same handle and different movable
\* elements.
C17_OneMovablePerHandle ==
    \A i, j \in 1..Len(nodeMapping) :
        nodeMapping[i].draggableNode = nodeMapping[j].draggableNode
        => nodeMapping[i].nodeToMove = nodeMapping[j].nodeToMove

\* C18: a drag-over changes nothing of the session, the arrays, the registry
\* and the class lists; it stops the propagation and prevents the default,
\* looks nothing up and throws nothing, in every state.
C18_DragOverChangesNothing ==
    [][\A n \in Nodes :
         (last'.this = n /\ DragOver(n))
         => /\ UNCHANGED progVars
            /\ last'.err = NoError
            /\ last'.lookups = 0
            /\ last'.calls = <<>>
            /\ last'.event = {"stopPropagation", "preventDefault"}]_vars

C18_Witness ==
    /\ last.ran /\ last.this = "a0" /\ last.lookups = 0
    /\ last.event = {"stopPropagation", "preventDefault"}
    /\ ractive = Undefined /\ sourceKeypath = NoKeypath

\* C19: after a drag-start that does not throw, ractive, sourceKeypath and
\* sourceArray are the owner, the keypath and the parent keypath of the
\* context of the movable element of the handle that received it, whatever
\* they were before.
C19_StartOverwritesSession ==
    [][\A n \in Nodes :
         (/\ last'.this = n
          /\ DragStart(n)
          /\ last'.err = NoError)
         => /\ ractive' = ContextOf(n).ractive
            /\ sourceKeypath' = ContextOf(n).keypath
            /\ sourceArray' = resolveParent(ContextOf(n).keypath)]_vars

C19_Witness ==
    /\ last.this = "b0" /\ last.event = {"setData", "stopPropagation"}
    /\ last.err = NoError
    /\ ractive = "B" /\ sourceKeypath = Keypath("list", "0")
    /\ "droptarget" \in classList["a0"]

====
